---------------------------- MODULE Spec2Model ----------------------------
(***************************************************************************)
(* A model of turndown-cli (src/index.js): the command-line wrapper that   *)
(* resolves the style options, loads the plugins listed in plugins.json,   *)
(* converts an HTML source with the turndown converter, writes the target  *)
(* file, and installs / removes plugins through npm.                       *)
(*                                                                         *)
(* Three specifications share the actions of the program:                  *)
(*   SpecOptions  one conversion run, the style flags drawn from           *)
(*                SelectorValues, no plugins.json on disk;                 *)
(*   Spec         one conversion run without style flags, the plugin       *)
(*                configuration and the plugin modules drawn from bounded  *)
(*                sets;                                                    *)
(*   SpecPlugins  any sequence of --install / --remove runs, every npm     *)
(*                command free to fail.                                    *)
(***************************************************************************)
EXTENDS Integers, Sequences, FiniteSets, TLC

VARIABLES
    argv,         \* Minimist(process.argv.slice(2)) of the current run
    pluginsFile,  \* plugins.json beside index.js: NoFile or its parsed content
    installed,    \* node_modules: package name -> installed version (0: none)
    latest,       \* npm registry: package name -> latest published version
    resolvable,   \* the plugin paths require() can resolve in this run
    moduleRules,  \* plugin name -> tags its module registers a rule for
    pc,           \* where the run is: main, fetching, reading, writing, exit
    options,      \* the object handed to new TurndownService(...)
    service,      \* the TurndownService: effective options and rule list
    used,         \* plugin names passed to turndownService.use, in order
    conv,         \* the turndownService.turndown call of this run
    writeReq,     \* the fs.writeFile request in flight
    target,       \* the target file: NoFile or its content
    log,          \* what console.log / console.error have printed
    lastCall      \* SpecPlugins: the last installPlugin / removePlugin call

vars == <<argv, pluginsFile, installed, latest, resolvable, moduleRules, pc,
          options, service, used, conv, writeReq, target, log, lastCall>>

(***************************************************************************)
(* Bounds of the model.                                                    *)
(***************************************************************************)
MaxFlags == 2      \* SpecOptions: style flags on one command line
MaxPlugins == 2    \* plugin names that exist
MaxVersion == 2    \* versions a package is published in

(***************************************************************************)
(* JavaScript values.  A number is kept in half units (n = 2 * value), so  *)
(* that a fractional selector such as 1.5 is a value of the model.         *)
(***************************************************************************)
Undefined == [t |-> "undefined", n |-> 0, s |-> ""]
NaN == [t |-> "nan", n |-> 0, s |-> ""]
Bool(b) == [t |-> "boolean", n |-> IF b THEN 1 ELSE 0, s |-> ""]
Num(h) == [t |-> "number", n |-> h, s |-> ""]
Str(s) == [t |-> "string", n |-> 0, s |-> s]
\* a key an object does not have (not a JavaScript value)
Absent == [t |-> "absent", n |-> 0, s |-> ""]

\* !!v
Truthy(v) ==
    CASE v.t = "boolean" -> v.n = 1
      [] v.t = "number" -> v.n # 0
      [] v.t = "string" -> v.s # ""
      [] OTHER -> FALSE

\* a || b
Or(a, b) == IF Truthy(a) THEN a ELSE b

\* +v.  Minimist has already turned every numeric-looking argument into a
\* number, so a string that reaches this point is not numeric.
ToNumber(v) ==
    CASE v.t = "number" -> v
      [] v.t = "boolean" -> Num(2 * v.n)
      [] v.t = "string" /\ v.s = "" -> Num(0)
      [] OTHER -> NaN

\* v - 1
MinusOne(v) == IF v.t = "number" THEN Num(v.n - 2) ELSE NaN

\* v < len, len an array length
LessThan(v, len) == v.t = "number" /\ v.n < 2 * len

\* arr[v]: an element for an index 0..length-1, undefined for any other key
Index(arr, v) ==
    IF v.t = "number" /\ v.n % 2 = 0 /\ v.n >= 0 /\ v.n < 2 * Len(arr)
    THEN Str(arr[(v.n \div 2) + 1])
    ELSE Undefined

(***************************************************************************)
(* The choices of each option.                                             *)
(***************************************************************************)
OptionKeys ==
    <<"headingStyle", "hr", "bulletListMarker", "codeBlockStyle", "fence",
      "emDelimiter", "strongDelimiter", "linkStyle", "linkReferenceStyle",
      "preformattedCode">>

OptionKeySet == {OptionKeys[i] : i \in 1..Len(OptionKeys)}

\* The backtick character: a string literal of the module cannot hold it, so
\* a token stands for it; equal strings stay equal and different ones differ.
Backtick == "<backtick>"

Options ==
    [headingStyle |-> <<"setext", "atx">>,
     hr |-> <<"*", "-", "_">>,
     bulletListMarker |-> <<"*", "-", "+">>,
     codeBlockStyle |-> <<"indented", "fenced">>,
     fence |-> <<Backtick, "~">>,
     emDelimiter |-> <<"_", "*">>,
     strongDelimiter |-> <<"**", "__">>,
     linkStyle |-> <<"inlined", "referenced">>,
     linkReferenceStyle |-> <<"full", "collapsed", "shortcut">>,
     preformattedCode |-> <<"false", "true">>]

\* the long and the short flag of each option
LongFlag ==
    [headingStyle |-> "head", hr |-> "hr", bulletListMarker |-> "bullet",
     codeBlockStyle |-> "code", fence |-> "fence", emDelimiter |-> "em",
     strongDelimiter |-> "strong", linkStyle |-> "link",
     linkReferenceStyle |-> "linkref", preformattedCode |-> "pre"]

ShortFlag ==
    [headingStyle |-> "t", hr |-> "r", bulletListMarker |-> "b",
     codeBlockStyle |-> "c", fence |-> "f", emDelimiter |-> "e",
     strongDelimiter |-> "s", linkStyle |-> "l",
     linkReferenceStyle |-> "u", preformattedCode |-> "p"]

FlagNames ==
    {LongFlag[k] : k \in OptionKeySet} \cup {ShortFlag[k] : k \in OptionKeySet}

(***************************************************************************)
(* The command line after Minimist: the style flags, the remote and raw    *)
(* switches and the positional arguments.  A flag that was not given is    *)
(* undefined.                                                              *)
(***************************************************************************)
\* What the user can write after a flag: nothing (true), a non-numeric word,
\* a negative selector, zero, 1, 1.5, 2, 3, and 4 (more than any option has).
SelectorValues ==
    {Bool(TRUE), Str("abc"), Num(-2), Num(0), Num(2), Num(3), Num(4), Num(6),
     Num(8)}

NoFlags == [f \in FlagNames |-> Undefined]

\* the flag assignments with at most n flags given
RECURSIVE FlagSets(_)
FlagSets(n) ==
    IF n = 0 THEN {NoFlags}
    ELSE LET less == FlagSets(n - 1) IN
         less \cup {[fl EXCEPT ![f] = v] :
                        fl \in less, f \in FlagNames, v \in SelectorValues}

LocalSource == "page.html"
UrlSource == "http://example.com/page.html"
TargetArg == "out.md"

Positionals ==
    {<<>>, <<LocalSource>>, <<UrlSource>>, <<LocalSource, TargetArg>>,
     <<UrlSource, TargetArg>>}

Argvs(n) ==
    [flags : FlagSets(n), remote : BOOLEAN, raw : BOOLEAN, positional : Positionals]

\* argv._[i], undefined past the end
Positional(a, i) ==
    IF i <= Len(a.positional) THEN Str(a.positional[i]) ELSE Undefined

\* sourcePath.startsWith(prefix)
StartsWith(str, prefix) ==
    Len(str) >= Len(prefix) /\ SubSeq(str, 1, Len(prefix)) = prefix

(***************************************************************************)
(* Option resolution: one block per option, the same ten blocks in the     *)
(* local branch and in the --remote branch of a source that is no URL.     *)
(***************************************************************************)
\* the block without its two guards
resolveOptionUnguarded(a, k) ==
    Index(Options[k],
          MinusOne(ToNumber(Or(a.flags[LongFlag[k]], a.flags[ShortFlag[k]]))))

\* if (argv.head || argv.t) { optVal = +optVal - 1;
\*     if (optVal < Options.x.length) options.x = Options.x[optVal] }
resolveOption(a, k) ==
    LET given == Or(a.flags[LongFlag[k]], a.flags[ShortFlag[k]]) IN
    IF Truthy(given)
    THEN LET optVal == MinusOne(ToNumber(given)) IN
         IF LessThan(optVal, Len(Options[k]))
         THEN Index(Options[k], optVal)
         ELSE Absent
    ELSE Absent

\* var options = {} and the ten blocks, local branch
optionsLocal(a) == [k \in OptionKeySet |-> resolveOption(a, k)]

\* var options = {} and the ten blocks, --remote with a source that is no URL
optionsRemoteFile(a) == [k \in OptionKeySet |-> resolveOption(a, k)]

\* new TurndownService() of the remote URL branch: no options object
NoOptions == [k \in OptionKeySet |-> Absent]

(***************************************************************************)
(* The converter (the turndown package): what the wrapper relies on.       *)
(***************************************************************************)
\* the converter's own defaults
TurndownDefaults ==
    [headingStyle |-> Str("setext"),
     hr |-> Str("* * *"),
     bulletListMarker |-> Str("*"),
     codeBlockStyle |-> Str("indented"),
     fence |-> Str(Backtick \o Backtick \o Backtick),
     emDelimiter |-> Str("_"),
     strongDelimiter |-> Str("**"),
     linkStyle |-> Str("inlined"),
     linkReferenceStyle |-> Str("full"),
     preformattedCode |-> Bool(FALSE)]

\* extend({}, defaults, options): every key the options object has, an
\* undefined value included, replaces the default
Extend(defaults, opts) ==
    [k \in OptionKeySet |-> IF opts[k] = Absent THEN defaults[k] ELSE opts[k]]

\* String(v), as string concatenation does it
ToStr(v) ==
    CASE v.t = "string" -> v.s
      [] v.t = "undefined" -> "undefined"
      [] v.t = "boolean" -> (IF v.n = 1 THEN "true" ELSE "false")
      [] OTHER -> "NaN"

Builtin == "builtin"
Fallback == "fallback"

\* the built-in rules of a new service, in priority order
BuiltinRules ==
    <<[owner |-> Builtin, tag |-> "p"], [owner |-> Builtin, tag |-> "h1"],
      [owner |-> Builtin, tag |-> "h2"], [owner |-> Builtin, tag |-> "b"]>>

\* new TurndownService(options)
NewService(opts) ==
    [built |-> TRUE, options |-> Extend(TurndownDefaults, opts),
     rules |-> BuiltinRules]

NoService == [built |-> FALSE, options |-> NoOptions, rules |-> <<>>]

\* registerRule: the rule goes to the front of the priority list
registerRule(rules, rule) == <<rule>> \o rules

\* findRule: the first rule of the list that matches, else the fallback rule
RECURSIVE findRule(_, _)
findRule(rules, tag) ==
    IF rules = <<>> THEN [owner |-> Fallback, tag |-> tag]
    ELSE IF Head(rules).tag = tag THEN Head(rules)
    ELSE findRule(Tail(rules), tag)

\* the tags a plugin module may register a rule for
PluginTags == <<"h1", "b">>

\* the plugin's registration function: one registerRule per tag of the module
RECURSIVE registerAll(_, _, _, _)
registerAll(rules, owner, tags, i) ==
    IF i > Len(PluginTags) THEN rules
    ELSE registerAll(
             IF PluginTags[i] \in tags
             THEN registerRule(rules, [owner |-> owner, tag |-> PluginTags[i]])
             ELSE rules,
             owner, tags, i + 1)

\* turndownService.use(pluginModule)
Use(svc, owner, tags) ==
    [svc EXCEPT !.rules = registerAll(svc.rules, owner, tags, 1)]

RECURSIVE Repeat(_, _)
Repeat(c, n) == IF n <= 0 THEN "" ELSE c \o Repeat(c, n - 1)

\* the replacement a rule gives a node whose children are already rendered
Replacement(rule, content, opts) ==
    CASE rule.owner = Fallback -> content
      [] rule.owner # Builtin /\ rule.owner # Fallback ->
             rule.owner \o "(" \o content \o ")"
      [] rule.tag \in {"h1", "h2"} ->
             LET level == IF rule.tag = "h1" THEN 1 ELSE 2 IN
             IF opts.headingStyle = Str("setext") /\ level < 3
             THEN content \o "\n"
                      \o Repeat(IF level = 1 THEN "=" ELSE "-", Len(content))
             ELSE Repeat("#", level) \o " " \o content
      [] rule.tag = "b" ->
             ToStr(opts.strongDelimiter) \o content \o ToStr(opts.strongDelimiter)
      [] OTHER -> content

\* the children of a block, rendered and concatenated
RECURSIVE RenderInline(_, _)
RenderInline(kids, svc) ==
    IF kids = <<>> THEN ""
    ELSE LET k == Head(kids) IN
         (IF k.tag = "#text" THEN k.text
          ELSE Replacement(findRule(svc.rules, k.tag), k.text, svc.options))
         \o RenderInline(Tail(kids), svc)

\* the blocks of a document, separated by one blank line
RECURSIVE RenderBlocks(_, _)
RenderBlocks(blocks, svc) ==
    IF blocks = <<>> THEN ""
    ELSE LET b == Head(blocks) IN
         Replacement(findRule(svc.rules, b.tag), RenderInline(b.kids, svc),
                     svc.options)
         \o (IF Len(blocks) > 1 THEN "\n\n" ELSE "")
         \o RenderBlocks(Tail(blocks), svc)

\* turndownService.turndown(html), when it returns
Turndown(svc, doc) == RenderBlocks(doc.dom, svc)

\* the converter enables preformatted-code handling by the option's truthiness
PreformattedEnabled(svc) == Truthy(svc.options.preformattedCode)

(***************************************************************************)
(* The HTML sources: the text and the tree the parser makes of it.         *)
(***************************************************************************)
EmptyDoc == [html |-> "", dom |-> <<>>]

ExampleDoc ==
    [html |-> "<h1>Title</h1><p>Hello <b>world</b></p>",
     dom |-> <<[tag |-> "h1", kids |-> <<[tag |-> "#text", text |-> "Title"]>>],
               [tag |-> "p", kids |-> <<[tag |-> "#text", text |-> "Hello "],
                                        [tag |-> "b", text |-> "world"]>>]>>]

SectionDoc ==
    [html |-> "<h2>Part</h2>",
     dom |-> <<[tag |-> "h2", kids |-> <<[tag |-> "#text", text |-> "Part"]>>]>>]

Docs == {EmptyDoc, ExampleDoc, SectionDoc}

(***************************************************************************)
(* The plugin configuration file and the plugin bookkeeping.               *)
(***************************************************************************)
PluginNames == {"p" \o ToString(i) : i \in 1..MaxPlugins}

Versions == 1..MaxVersion

NoFile == [exists |-> FALSE, plugins |-> <<>>]

\* the entries are strings and numbers, which JSON.stringify / JSON.parse
\* give back unchanged; a missing file reads as no plugins
readPluginsConfig(file) ==
    IF file.exists THEN [plugins |-> file.plugins] ELSE [plugins |-> <<>>]

writePluginsConfig(config) == [exists |-> TRUE, plugins |-> config.plugins]

PluginPath(name) == "node_modules/" \o name

PluginEntry(name, version) ==
    [name |-> name, version |-> version, path |-> PluginPath(name)]

\* a find that never matches
findPluginNever(plugins, name) == 0

\* config.plugins.find / findIndex (plugin => plugin.name === pluginName):
\* the position of the first entry of that name, 0 when there is none
findPlugin(plugins, name) ==
    IF \E i \in 1..Len(plugins) : plugins[i].name = name
    THEN CHOOSE i \in 1..Len(plugins) :
             /\ plugins[i].name = name
             /\ \A j \in 1..(i - 1) : plugins[j].name # name
    ELSE 0

\* config.plugins.splice(pluginIndex, 1)
Splice(plugins, i) ==
    [j \in 1..(Len(plugins) - 1) |-> IF j < i THEN plugins[j] ELSE plugins[j + 1]]

\* a loop that goes on to the next entry when require throws
RECURSIVE loadFromSkip(_, _, _, _, _)
loadFromSkip(svc, done, plugins, i, state) ==
    IF i > Len(plugins) THEN [service |-> svc, used |-> done, threw |-> FALSE]
    ELSE IF plugins[i].name \notin state.resolvable
    THEN loadFromSkip(svc, done, plugins, i + 1, state)
    ELSE loadFromSkip(
             Use(svc, plugins[i].name, state.moduleRules[plugins[i].name]),
             Append(done, plugins[i].name), plugins, i + 1, state)

\* loadPlugins from entry i on: require(plugin.path), which throws for a path
\* that cannot be resolved and ends the loop, then turndownService.use
RECURSIVE loadFrom(_, _, _, _, _)
loadFrom(svc, done, plugins, i, state) ==
    IF i > Len(plugins) THEN [service |-> svc, used |-> done, threw |-> FALSE]
    ELSE IF plugins[i].name \notin state.resolvable
    THEN [service |-> svc, used |-> done, threw |-> TRUE]
    ELSE loadFrom(Use(svc, plugins[i].name, state.moduleRules[plugins[i].name]),
                  Append(done, plugins[i].name), plugins, i + 1, state)

\* the entries taken last first
loadPluginsReversed(svc, file, state) ==
    LET ps == readPluginsConfig(file).plugins IN
    loadFrom(svc, <<>>, [i \in 1..Len(ps) |-> ps[Len(ps) + 1 - i]], 1, state)

\* loadPlugins(turndownService): config.plugins.forEach, in the file's order
loadPlugins(svc, file, state) ==
    loadFrom(svc, <<>>, readPluginsConfig(file).plugins, 1, state)

(***************************************************************************)
(* A conversion run: the last branch of the dispatch.                      *)
(***************************************************************************)
Cwd == "/work"

RECURSIVE LastIndexOf(_, _, _)
LastIndexOf(str, ch, i) ==
    IF i = 0 THEN 0
    ELSE IF SubSeq(str, i, i) = ch THEN i
    ELSE LastIndexOf(str, ch, i - 1)

\* path.basename(p, path.extname(p))
BaseName(p) ==
    LET slash == LastIndexOf(p, "/", Len(p))
        file == SubSeq(p, slash + 1, Len(p))
        dot == LastIndexOf(file, ".", Len(file))
    IN  IF dot <= 1 THEN file ELSE SubSeq(file, 1, dot - 1)

\* argv._[1] || defaultTargetPath.  The default lies beside a local source
\* (path.resolve puts it under the working directory) and in the working
\* directory for a URL.
TargetPath(a, ext) ==
    LET given == Positional(a, 2) IN
    IF Truthy(given) THEN given.s
    ELSE Cwd \o "/" \o BaseName(a.positional[1]) \o ext

IsUrl(sourcePath) ==
    StartsWith(sourcePath, "http://") \/ StartsWith(sourcePath, "https://")

NoConv == [status |-> "none", input |-> EmptyDoc, markdown |-> Undefined,
           usedBefore |-> <<>>]
NoWrite == [active |-> FALSE, path |-> "", content |-> "", kind |-> ""]
NoTarget == [exists |-> FALSE, path |-> "", content |-> ""]
NoCall == [op |-> "none", name |-> ""]

Env == [resolvable |-> resolvable, moduleRules |-> moduleRules]

\* var markdown = turndownService.turndown(data): the call returns the
\* Markdown or throws; markdown stays undefined when it throws
Convert(svc, doc, threw, usedNow) ==
    [status |-> IF threw THEN "threw" ELSE "returned",
     input |-> doc,
     markdown |-> IF threw THEN Undefined ELSE Str(Turndown(svc, doc)),
     usedBefore |-> usedNow]

\* the synchronous part of a run with a file source: the options, the service,
\* the plugins, and fs.readFile issued
StartFile(opts) ==
    LET loaded == loadPlugins(NewService(opts), pluginsFile, Env) IN
    /\ options' = opts
    /\ service' = loaded.service
    /\ used' = loaded.used
    /\ IF loaded.threw
       THEN /\ pc' = "exit"
            /\ log' = log \cup {"uncaught exception"}
       ELSE /\ pc' = "reading"
            /\ UNCHANGED log

Main ==
    /\ pc = "main"
    /\ LET sourcePath == Positional(argv, 1) IN
       IF ~Truthy(sourcePath)
       THEN /\ pc' = "exit"
            /\ log' = log \cup {"Error: Missing 'source' filepath param"}
            /\ UNCHANGED <<options, service, used>>
       ELSE IF argv.remote
       THEN IF IsUrl(sourcePath.s)
            THEN /\ pc' = "fetching"
                 /\ UNCHANGED <<options, service, used, log>>
            ELSE StartFile(optionsRemoteFile(argv))
       ELSE StartFile(optionsLocal(argv))
    /\ UNCHANGED <<argv, pluginsFile, installed, latest, resolvable, moduleRules,
                   conv, writeReq, target, lastCall>>

\* the fs.readFile callback of both file branches
ReadFileCallback ==
    /\ pc = "reading"
    /\ \E err \in BOOLEAN, data \in Docs, threw \in BOOLEAN :
         IF err
         THEN /\ pc' = "exit"
              /\ log' = log \cup {"read error"}
              /\ UNCHANGED <<conv, writeReq>>
         ELSE LET c == Convert(service, data, threw, used) IN
              /\ conv' = c
              /\ log' = IF threw
                        THEN log \cup {"Error: Something went wrong while conversion."}
                        ELSE log
              /\ IF Truthy(c.markdown)
                 THEN /\ writeReq' = [active |-> TRUE, path |-> TargetPath(argv, ".md"),
                                      content |-> c.markdown.s, kind |-> "Markdown"]
                      /\ pc' = "writing"
                 ELSE /\ pc' = "exit"
                      /\ UNCHANGED writeReq
    /\ UNCHANGED <<argv, pluginsFile, installed, latest, resolvable, moduleRules,
                   options, service, used, target, lastCall>>

\* the async function of the remote URL branch, from the fetched content on;
\* whatever it throws reaches the .catch of the call
FetchDone ==
    /\ pc = "fetching"
    /\ \E failed \in BOOLEAN, content \in Docs, threw \in BOOLEAN :
         IF failed
         THEN /\ pc' = "exit"
              /\ log' = log \cup {"Error fetching content:"}
              /\ UNCHANGED <<options, service, used, conv, writeReq>>
         ELSE IF argv.raw
         THEN /\ writeReq' = [active |-> TRUE, path |-> TargetPath(argv, ".html"),
                              content |-> content.html, kind |-> "Raw HTML"]
              /\ pc' = "writing"
              /\ UNCHANGED <<options, service, used, conv, log>>
         ELSE LET loaded == loadPlugins(NewService(NoOptions), pluginsFile, Env)
                  c == Convert(loaded.service, content, threw, loaded.used)
              IN  /\ options' = NoOptions
                  /\ service' = loaded.service
                  /\ used' = loaded.used
                  /\ IF loaded.threw
                     THEN /\ pc' = "exit"
                          /\ log' = log \cup {"Error fetching content:"}
                          /\ UNCHANGED <<conv, writeReq>>
                     ELSE /\ conv' = c
                          /\ IF threw
                             THEN /\ pc' = "exit"
                                  /\ log' = log \cup {"Error fetching content:"}
                                  /\ UNCHANGED writeReq
                             ELSE /\ writeReq' =
                                        [active |-> TRUE,
                                         path |-> TargetPath(argv, ".md"),
                                         content |-> c.markdown.s,
                                         kind |-> "Markdown"]
                                  /\ pc' = "writing"
                                  /\ UNCHANGED log
    /\ UNCHANGED <<argv, pluginsFile, installed, latest, resolvable, moduleRules,
                   target, lastCall>>

\* the fs.writeFile callback
WriteFileCallback ==
    /\ pc = "writing"
    /\ \E err \in BOOLEAN :
         IF err
         THEN /\ log' = log \cup {"write error"}
              /\ UNCHANGED target
         ELSE /\ target' = [exists |-> TRUE, path |-> writeReq.path,
                            content |-> writeReq.content]
              /\ log' = log \cup {writeReq.kind \o " saved at path"}
    /\ pc' = "exit"
    /\ UNCHANGED <<argv, pluginsFile, installed, latest, resolvable, moduleRules,
                   options, service, used, conv, writeReq, lastCall>>

NextRun == Main \/ ReadFileCallback \/ FetchDone \/ WriteFileCallback

\* a new process: nothing constructed, nothing printed
InitRun ==
    /\ pc = "main"
    /\ options = NoOptions
    /\ service = NoService
    /\ used = <<>>
    /\ conv = NoConv
    /\ writeReq = NoWrite
    /\ target = NoTarget
    /\ log = {}
    /\ lastCall = NoCall

\* the plugin configurations: entries of different names, in any order
RECURSIVE Configs(_)
Configs(n) ==
    IF n = 0 THEN {<<>>}
    ELSE LET less == Configs(n - 1) IN
         less \cup {Append(c, PluginEntry(name, 1)) :
                        c \in less, name \in PluginNames}

UniqueNames(plugins) ==
    \A i, j \in 1..Len(plugins) : i # j => plugins[i].name # plugins[j].name

ListedNames(plugins) == {plugins[i].name : i \in 1..Len(plugins)}

\* One run with style flags, no plugins.json.
InitOptions ==
    /\ argv \in Argvs(MaxFlags)
    /\ pluginsFile = NoFile
    /\ installed = [p \in PluginNames |-> 0]
    /\ latest = [p \in PluginNames |-> 1]
    /\ resolvable = {}
    /\ moduleRules = [p \in PluginNames |-> {}]
    /\ InitRun

SpecOptions == InitOptions /\ [][NextRun]_vars

\* One run without style flags; plugins.json lists plugins of different
\* names, each listed plugin resolvable or not, its module registering rules
\* for any of the plugin tags.
Init ==
    /\ argv \in Argvs(0)
    /\ \E c \in {c \in Configs(MaxPlugins) : UniqueNames(c)} :
         /\ pluginsFile \in {NoFile, [exists |-> TRUE, plugins |-> c]}
         /\ installed = [p \in PluginNames |->
                            IF p \in ListedNames(readPluginsConfig(pluginsFile).plugins)
                            THEN 1 ELSE 0]
         /\ resolvable \in SUBSET ListedNames(c)
         /\ moduleRules \in
                {m \in [PluginNames -> SUBSET {PluginTags[i] : i \in 1..Len(PluginTags)}] :
                     \A p \in PluginNames \ ListedNames(c) : m[p] = {}}
    /\ latest = [p \in PluginNames |-> 1]
    /\ InitRun

Next == NextRun

Spec == Init /\ [][Next]_vars

(***************************************************************************)
(* Plugin management runs: --install, --list, --remove.  Each is one       *)
(* process that runs to its end; execSync throws when the npm command      *)
(* fails, and a command that fails changes nothing.                        *)
(***************************************************************************)
\* installPlugin(pluginName); showOk, installOk: whether npm show / npm
\* install succeed
installPlugin(name, showOk, installOk) ==
    LET config == readPluginsConfig(pluginsFile)
        at == findPlugin(config.plugins, name)
    IN  IF at # 0
        THEN \* already listed: npm show, then npm install name@latest
             IF showOk /\ config.plugins[at].version # latest[name]
             THEN IF installOk
                  THEN /\ installed' = [installed EXCEPT ![name] = latest[name]]
                       /\ pluginsFile' = writePluginsConfig(
                              [plugins |-> [config.plugins EXCEPT
                                  ![at] = PluginEntry(name, latest[name])]])
                       /\ log' = {"updated"}
                  ELSE /\ log' = {"uncaught exception"}
                       /\ UNCHANGED <<installed, pluginsFile>>
             ELSE /\ log' = IF showOk THEN {"already up-to-date"}
                            ELSE {"uncaught exception"}
                  /\ UNCHANGED <<installed, pluginsFile>>
        ELSE \* not listed: npm install, then npm show
             IF installOk
             THEN /\ installed' = [installed EXCEPT ![name] = latest[name]]
                  /\ IF showOk
                     THEN /\ pluginsFile' = writePluginsConfig(
                                 [plugins |-> Append(config.plugins,
                                                     PluginEntry(name, latest[name]))])
                          /\ log' = {"installed successfully"}
                     ELSE /\ log' = {"uncaught exception"}
                          /\ UNCHANGED pluginsFile
             ELSE /\ log' = {"uncaught exception"}
                  /\ UNCHANGED <<installed, pluginsFile>>

\* removePlugin(pluginName); uninstallOk: whether npm uninstall succeeds
removePlugin(name, uninstallOk) ==
    LET config == readPluginsConfig(pluginsFile)
        pluginIndex == findPlugin(config.plugins, name)
    IN  IF pluginIndex # 0
        THEN IF uninstallOk
             THEN /\ installed' = [installed EXCEPT ![name] = 0]
                  /\ pluginsFile' = writePluginsConfig(
                         [plugins |-> Splice(config.plugins, pluginIndex)])
                  /\ log' = {"removed successfully"}
             ELSE /\ log' = {"uncaught exception"}
                  /\ UNCHANGED <<installed, pluginsFile>>
        ELSE /\ log' = {"is not installed"}
             /\ UNCHANGED <<installed, pluginsFile>>

\* listPlugins()
listPlugins ==
    LET config == readPluginsConfig(pluginsFile) IN
    /\ log' = IF Len(config.plugins) = 0 THEN {"No plugins installed."}
              ELSE {"Installed plugins:"} \cup
                   {config.plugins[i].name : i \in 1..Len(config.plugins)}
    /\ UNCHANGED <<installed, pluginsFile>>

UnchangedRun ==
    UNCHANGED <<argv, latest, resolvable, moduleRules, pc, options, service,
                used, conv, writeReq, target>>

\* turndown-cli --install <plugin-name>
InstallRun ==
    /\ \E name \in PluginNames, showOk \in BOOLEAN, installOk \in BOOLEAN :
         /\ installPlugin(name, showOk, installOk)
         /\ lastCall' = [op |-> "install", name |-> name]
    /\ UnchangedRun

\* turndown-cli --list
ListRun ==
    /\ listPlugins
    /\ lastCall' = [op |-> "list", name |-> ""]
    /\ UnchangedRun

\* turndown-cli --remove <plugin-name>
RemoveRun ==
    /\ \E name \in PluginNames, uninstallOk \in BOOLEAN :
         /\ removePlugin(name, uninstallOk)
         /\ lastCall' = [op |-> "remove", name |-> name]
    /\ UnchangedRun

\* the registry: a new version of a package is published
Publish ==
    /\ \E name \in PluginNames :
         /\ latest[name] < MaxVersion
         /\ latest' = [latest EXCEPT ![name] = latest[name] + 1]
    /\ lastCall' = [op |-> "publish", name |-> ""]
    /\ log' = {}
    /\ UNCHANGED <<argv, pluginsFile, installed, resolvable, moduleRules, pc,
                   options, service, used, conv, writeReq, target>>

NextPlugins == InstallRun \/ ListRun \/ RemoveRun \/ Publish

\* no plugins.json yet, or one without duplicate names whose plugins are
\* installed in the version it lists
InitPlugins ==
    /\ argv = [flags |-> NoFlags, remote |-> FALSE, raw |-> FALSE,
               positional |-> <<>>]
    /\ \E c \in {c \in Configs(MaxPlugins) : UniqueNames(c)} :
         /\ pluginsFile \in {NoFile, [exists |-> TRUE, plugins |-> c]}
         /\ installed = [p \in PluginNames |->
                            IF p \in ListedNames(readPluginsConfig(pluginsFile).plugins)
                            THEN 1 ELSE 0]
    /\ latest = [p \in PluginNames |-> 1]
    /\ resolvable = {}
    /\ moduleRules = [p \in PluginNames |-> {}]
    /\ InitRun

SpecPlugins == InitPlugins /\ [][NextPlugins]_vars

(***************************************************************************)
(* The claims.                                                             *)
(***************************************************************************)
\* the run took one of the two file branches and built its service
FileBranchBuilt ==
    /\ service.built
    /\ ~(argv.remote /\ IsUrl(argv.positional[1]))

\* the run took the remote URL branch and built its service
UrlBranchBuilt ==
    /\ service.built
    /\ argv.remote /\ IsUrl(argv.positional[1])

\* the selector the user gave for option k (argv.long || argv.short)
Selector(k) == Or(argv.flags[LongFlag[k]], argv.flags[ShortFlag[k]])

InChoices(k, v) ==
    v.t = "string" /\ \E i \in 1..Len(Options[k]) : Options[k][i] = v.s

\* C1: the options object handed to the converter has, for each option,
\* either no entry or a value of that option's choice list, whatever selector
\* the user gave.
C1_OptionsInChoices ==
    FileBranchBuilt =>
        \A k \in OptionKeySet : options[k] = Absent \/ InChoices(k, options[k])

\* C2: the converter of a fetched URL is constructed with the options object
\* the same flags produce for a local file.
C2_RemoteUrlOptionsAsLocal ==
    UrlBranchBuilt => options = optionsLocal(argv)

\* C3: selector 1 of an option gives the converter the value it has when the
\* option is omitted, the converter's own default.
C3_FirstChoiceIsDefault ==
    FileBranchBuilt =>
        \A k \in OptionKeySet :
            Selector(k) = Num(2) => service.options[k] = TurndownDefaults[k]

\* the rules that render the example come from the converter, not a plugin
ExampleRenderedByBuiltins ==
    \A tag \in {"h1", "p", "b"} : findRule(service.rules, tag).owner = Builtin

ExampleConverted ==
    /\ conv.status = "returned"
    /\ conv.input = ExampleDoc
    /\ \A k \in OptionKeySet : ~Truthy(Selector(k))
    /\ ExampleRenderedByBuiltins

\* C4 as stated: with no style option the heading style in effect is atx and
\* the example converts to '# Title', a blank line, 'Hello **world**'.
C4_DefaultsRenderAtx ==
    ExampleConverted =>
        /\ service.options.headingStyle = Str("atx")
        /\ service.options.strongDelimiter = Str("**")
        /\ conv.markdown = Str("# Title\n\nHello **world**")

\* C4 amended: with no style option the heading style in effect is setext
\* and the strong delimiter is '**'; the example converts to 'Title', a line
\* of five '=', a blank line, 'Hello **world**'.
C4_DefaultsRenderSetext ==
    ExampleConverted =>
        /\ service.options.headingStyle = Str("setext")
        /\ service.options.strongDelimiter = Str("**")
        /\ conv.markdown = Str("Title\n=====\n\nHello **world**")

C4_Witness ==
    /\ ExampleConverted
    /\ ~argv.remote
    /\ pc = "writing"

ConfigNames ==
    LET ps == readPluginsConfig(pluginsFile).plugins IN
    [i \in 1..Len(ps) |-> ps[i].name]

\* C5: when the conversion call begins every plugin of the configuration has
\* been passed to use(), in the configuration's order, and none is registered
\* during or after the call.
C5_PluginsRegisteredBeforeConversion ==
    conv.status # "none" =>
        /\ conv.usedBefore = ConfigNames
        /\ used = conv.usedBefore

C5_Witness ==
    /\ conv.status # "none"
    /\ Len(conv.usedBefore) >= 2
    /\ pc = "exit"

\* C6: once the plugins are loaded, a node that plugin rules match is
\* rendered by the rule of the matching plugin that comes last in the
\* configuration, never by an earlier plugin's rule or a built-in one.
C6_LaterPluginWins ==
    (service.built /\ Len(used) = Len(ConfigNames)) =>
        \A t \in 1..Len(PluginTags) :
            LET tag == PluginTags[t]
                matching == {i \in 1..Len(ConfigNames) :
                                 tag \in moduleRules[ConfigNames[i]]}
            IN  matching # {} =>
                    findRule(service.rules, tag).owner =
                        ConfigNames[CHOOSE i \in matching :
                                        \A j \in matching : j <= i]

C6_Witness ==
    /\ service.built
    /\ Len(used) >= 2
    /\ "b" \in moduleRules[used[1]] \cap moduleRules[used[2]]
    /\ findRule(BuiltinRules, "b").owner = Builtin
    /\ findRule(service.rules, "b").owner = used[2]

\* C7: selector 1 of the preformatted-code option disables preformatted-code
\* handling in the converter and selector 2 enables it.
C7_PreSelectorsDiffer ==
    FileBranchBuilt =>
        /\ Selector("preformattedCode") = Num(2) => ~PreformattedEnabled(service)
        /\ Selector("preformattedCode") = Num(4) => PreformattedEnabled(service)

\* C8: in a file branch whose read succeeded, a write of the target is
\* started exactly when the conversion returned, with the returned Markdown
\* (the empty string included) and the target path; a conversion that threw
\* starts no write and prints no 'Markdown saved'.
C8_WriteIffConverted ==
    (conv.status # "none" /\ FileBranchBuilt) =>
        /\ writeReq.active <=> conv.status = "returned"
        /\ conv.status = "returned" =>
               /\ writeReq.content = conv.markdown.s
               /\ writeReq.path = TargetPath(argv, ".md")
        /\ conv.status = "threw" => "Markdown saved at path" \notin log

C9_Step ==
    LET old == readPluginsConfig(pluginsFile).plugins
        new == readPluginsConfig(pluginsFile').plugins
        name == lastCall'.name
        at == CHOOSE i \in 0..Len(old) :
                  /\ i # 0 => old[i].name = name
                  /\ i = 0 => \A j \in 1..Len(old) : old[j].name # name
    IN  /\ UniqueNames(old) => UniqueNames(new)
        /\ (lastCall'.op = "install" /\ at # 0) =>
               /\ Len(new) = Len(old)
               /\ \A j \in 1..Len(old) : j # at => new[j] = old[j]
               /\ \/ new[at] = old[at]
                  \/ /\ old[at].version # latest[name]
                     /\ new[at] = PluginEntry(name, latest[name])
        /\ (lastCall'.op = "install" /\ at = 0) =>
               \/ new = old
               \/ new = Append(old, PluginEntry(name, latest[name]))
        /\ lastCall'.op = "remove" =>
               \/ new = old
               \/ /\ at # 0
                  /\ Len(new) = Len(old) - 1
                  /\ \A j \in 1..Len(new) :
                         new[j] = IF j < at THEN old[j] ELSE old[j + 1]
        /\ lastCall'.op \in {"list", "publish"} => new = old

\* C9: from a configuration without duplicate names, install and remove runs
\* keep one entry per name: an install of a listed name changes at most that
\* entry (its version and path, when the latest version differs) and appends
\* nothing, and a remove deletes the entry of that name alone and keeps the
\* order of the others.
C9_PluginNamesUnique ==
    /\ UniqueNames(readPluginsConfig(pluginsFile).plugins)
    /\ [][C9_Step]_vars

C9_Witness ==
    /\ lastCall.op = "install"
    /\ log = {"updated"}
    /\ Len(readPluginsConfig(pluginsFile).plugins) >= 2

\* C10: whatever npm command fails, a plugin name is listed in the
\* configuration exactly when its package is installed, and the version
\* listed is the version installed.
C10_ConfigMatchesInstalled ==
    LET ps == readPluginsConfig(pluginsFile).plugins IN
    /\ \A p \in PluginNames : p \in ListedNames(ps) <=> installed[p] # 0
    /\ \A i \in 1..Len(ps) : ps[i].version = installed[ps[i].name]
=============================================================================
